---- MODULE Spec2Model ----
(***************************************************************************)
(* ComptePose: exposure timer for a photographic insolation device.        *)
(* Model of the v2 board program (src/unnamed/part_000, lines 1-865), of  *)
(* the brightness editor of the earlier board variant (same file, from     *)
(* line 1394), and of the first sketch and the store initialisation        *)
(* sketch (src/ComptePose.ino).                                            *)
(*                                                                         *)
(* One pass of loop() is three steps (sw1, sw2, dispatch); the blocking    *)
(* loops of the menu and of its editors are one step per iteration.  The   *)
(* handlers are operators on the record of the program's variables, so     *)
(* that a step is the composition the code makes.                          *)
(*                                                                         *)
(* Time is in milliseconds.  Every polling iteration reads the clock one   *)
(* Quantum later than the one before.  The Timer library is not part of    *)
(* the sources: it is modelled from section 4.1 of the specification, a    *)
(* timer holding the time elapsed since its start instead of the start     *)
(* tick.                                                                   *)
(***************************************************************************)
EXTENDS Integers, Sequences, FiniteSets, TLC

\* ------------------------------------------------------------- bounds
\* polling iterations per second of model time
PassesPerSecond == 4
\* longest duration (seconds) the encoder may set in Spec
MaxDuration == 1
\* largest alert length (seconds) stored or edited in Spec
MaxBellLength == 1
\* largest number of detents read in one encoder poll in Spec
MaxStep == 1

Quantum == 1000 \div PassesPerSecond

\* the alert types, brightness values and memory slots stored or edited in Spec
SpecTypes == {1, 2}
SpecBrightness == {8}
SpecSlots == {1}

\* ------------------------------------------------- program constants
brightAdd == 0
bellTAdd == 1
bellLAdd == 2
memAdd == 3
maxStore == 64
maxType == 8
maxTime == 90
MEM_RECALL == 0
MEM_STORE == 1
BRIGHTNESS == 2
SOUND_TYPE == 3
SOUND_LENGTH == 4

\* ------------------------------------------------- integer widths
ToInt8(x) == ((x + 128) % 256) - 128
ToUint8(x) == x % 256
ToUint16(x) == x % 65536
ToInt16(x) == ((x + 32768) % 65536) - 32768

\* ------------------------------------------------- Timer (spec 4.1)
Once == [mode |-> "ONCE", n |-> 0]
Loop == [mode |-> "LOOP", n |-> 0]
Count(n) == [mode |-> "COUNT", n |-> n]

\* init(): Stopped
TimerInit == [st |-> "Stopped", elapsed |-> 0, delay |-> 0, mode |-> "ONCE", n |-> 0]

TimerSetDelay(t, d) == [t EXCEPT !.delay = d]

\* setMinutesSeconds(m, s): the delay of m minutes and s seconds
TimerSetMinutesSeconds(t, m, s) == [t EXCEPT !.delay = (60 * m + s) * 1000]

\* start(repeat): counts from the current tick
TimerStart(t, repeat) ==
    [t EXCEPT !.st = "Running", !.elapsed = 0, !.mode = repeat.mode, !.n = repeat.n]

\* stop(): Stopped, the elapsed time is discarded
TimerStop(t) == [t EXCEPT !.st = "Stopped", !.elapsed = 0, !.mode = "ONCE", !.n = 0]

\* pause(): freezes the elapsed time of a running timer; called on a paused
\* timer it goes back to Running with the banked elapsed time
TimerPause(t) ==
    CASE t.st = "Running" -> [t EXCEPT !.st = "Paused"]
      [] t.st = "Paused" -> [t EXCEPT !.st = "Running"]
      [] OTHER -> t

\* the value update() returns
TimerFires(t) == t.st = "Running" /\ t.elapsed >= t.delay

\* the timer after update()
TimerUpdate(t) ==
    IF ~TimerFires(t) THEN t
    ELSE CASE t.mode = "LOOP" -> [t EXCEPT !.elapsed = @ - t.delay]
           [] t.mode = "COUNT" /\ t.n > 1 -> [t EXCEPT !.elapsed = @ - t.delay, !.n = @ - 1]
           [] OTHER -> TimerStop(t)

\* remaining(): a pure read
TimerRemaining(t) == IF t.elapsed >= t.delay THEN 0 ELSE t.delay - t.elapsed

\* dt milliseconds pass.  A paused or stopped timer does not advance; the
\* time beyond a pending expiry is not accumulated.
TimerTick(t, dt) ==
    IF t.st = "Running" /\ t.elapsed < t.delay THEN [t EXCEPT !.elapsed = @ + dt] ELSE t

\* ------------------------------------------------- state
VARIABLES
    pc,          \* where the program is: "sw1", "sw2", "dispatch" in loop(),
                 \* "menuNaviguate" or the name of an editor in the menu
    caller,      \* who called menuNaviguate(): "manageSW2" or "loop"
    state,       \* state_t
    menuState,   \* menuState_t
    work,        \* the local of the running editor (mem, tempBrightness, type, length)
    out,         \* pin OUT, relay, asserted when "LOW"
    out2,        \* pin OUT2
    tone,        \* hardware timer 1 running (TCCR1B bit 0)
    enable,      \* bool enable
    clockOn,     \* display enabled (clock.enable)
    clockDots,   \* display dots (clock.setDots)
    intensity,   \* display intensity (ledDriver.setIntensity)
    minutes, seconds, duration,
    brightness, bellType, bellLength, bellLoops, currentMem,
    timerMain, timerDots, timerPause, timerBeep1, timerBeep2, timerBeep3,
    eeprom,      \* EEPROM bytes
    updates,     \* for each EEPROM.update() of the step just taken, in order:
                 \* TRUE when it wrote the byte
    piezo,       \* the piezo pins, bits 1 and 2 of port B: drive is their bit of
                 \* DDRB (both outputs), b1 and b2 their bits of PORTB
    prevState,   \* state before the step just taken
    prevPc,      \* pc before the step just taken
    runTime,     \* time passed in RUN since the countdown was started
    beepClock,   \* time passed in BEEPING since it was entered
    pulses,      \* times the tone went on since BEEPING was entered
    stored       \* per slot, the time of the last confirmed Store, <<>> when none

prog == <<pc, caller, state, menuState, work, out, out2, tone, enable, clockOn,
          clockDots, intensity, minutes, seconds, duration, brightness, bellType,
          bellLength, bellLoops, currentMem, timerMain, timerDots, timerPause,
          timerBeep1, timerBeep2, timerBeep3, eeprom, updates, piezo>>

vars == <<prog, prevState, prevPc, runTime, beepClock, pulses, stored>>

\* the program's variables as one record, the argument of the handlers
Cur ==
    [pc |-> pc, caller |-> caller, state |-> state, menuState |-> menuState,
     work |-> work, out |-> out, out2 |-> out2, tone |-> tone, enable |-> enable,
     clockOn |-> clockOn, clockDots |-> clockDots, intensity |-> intensity,
     minutes |-> minutes, seconds |-> seconds, duration |-> duration,
     brightness |-> brightness, bellType |-> bellType, bellLength |-> bellLength,
     bellLoops |-> bellLoops, currentMem |-> currentMem,
     timerMain |-> timerMain, timerDots |-> timerDots, timerPause |-> timerPause,
     timerBeep1 |-> timerBeep1, timerBeep2 |-> timerBeep2, timerBeep3 |-> timerBeep3,
     eeprom |-> eeprom, updates |-> <<>>, piezo |-> piezo]

Commit(r) ==
    /\ pc' = r.pc /\ caller' = r.caller /\ state' = r.state
    /\ menuState' = r.menuState /\ work' = r.work
    /\ out' = r.out /\ out2' = r.out2 /\ tone' = r.tone /\ enable' = r.enable
    /\ clockOn' = r.clockOn /\ clockDots' = r.clockDots /\ intensity' = r.intensity
    /\ minutes' = r.minutes /\ seconds' = r.seconds /\ duration' = r.duration
    /\ brightness' = r.brightness /\ bellType' = r.bellType
    /\ bellLength' = r.bellLength /\ bellLoops' = r.bellLoops
    /\ currentMem' = r.currentMem
    /\ timerMain' = r.timerMain /\ timerDots' = r.timerDots
    /\ timerPause' = r.timerPause /\ timerBeep1' = r.timerBeep1
    /\ timerBeep2' = r.timerBeep2 /\ timerBeep3' = r.timerBeep3
    /\ eeprom' = r.eeprom /\ updates' = r.updates /\ piezo' = r.piezo

\* the program's variables are those of r
Start(r) ==
    /\ pc = r.pc /\ caller = r.caller /\ state = r.state
    /\ menuState = r.menuState /\ work = r.work
    /\ out = r.out /\ out2 = r.out2 /\ tone = r.tone /\ enable = r.enable
    /\ clockOn = r.clockOn /\ clockDots = r.clockDots /\ intensity = r.intensity
    /\ minutes = r.minutes /\ seconds = r.seconds /\ duration = r.duration
    /\ brightness = r.brightness /\ bellType = r.bellType
    /\ bellLength = r.bellLength /\ bellLoops = r.bellLoops
    /\ currentMem = r.currentMem
    /\ timerMain = r.timerMain /\ timerDots = r.timerDots
    /\ timerPause = r.timerPause /\ timerBeep1 = r.timerBeep1
    /\ timerBeep2 = r.timerBeep2 /\ timerBeep3 = r.timerBeep3
    /\ eeprom = r.eeprom /\ updates = r.updates /\ piezo = r.piezo

\* Quantum milliseconds pass for every timer
Tick(r) ==
    [r EXCEPT !.timerMain = TimerTick(@, Quantum), !.timerDots = TimerTick(@, Quantum),
              !.timerPause = TimerTick(@, Quantum), !.timerBeep1 = TimerTick(@, Quantum),
              !.timerBeep2 = TimerTick(@, Quantum), !.timerBeep3 = TimerTick(@, Quantum)]

\* ------------------------------------------------- inputs
\* a button poll: update() and, after it, isLongPressed() and justPressed()
NoBtn == [upd |-> FALSE, long |-> FALSE, just |-> FALSE]
BtnInputs == {NoBtn} \cup [upd : {TRUE}, long : BOOLEAN, just : BOOLEAN]
\* the polls of the menu loops read justPressed() only
Press == [upd |-> TRUE, long |-> FALSE, just |-> TRUE]
MenuBtnInputs == {NoBtn, Press}
\* an encoder poll: <<>> when update() is false, else <<getStep()>>
NoEnc == <<>>
EncSteps == (-MaxStep .. MaxStep) \ {0}
EncInputs == {NoEnc} \cup {<<s>> : s \in EncSteps}
\* what the build makes of the signed overflow of bellLength * 1000
Overflows == {"wrap", "zext", "exact"}

\* ------------------------------------------------- tone and relay
\* beepOn(): the pins are made outputs, both high, then PORTB bit 2 is
\* toggled by the write of PINB bit 2; timer 1 is started
beepOn(r) == [r EXCEPT !.piezo = [drive |-> TRUE, b1 |-> TRUE, b2 |-> FALSE], !.tone = TRUE]

\* beepOff(): the pins are made inputs with no pull-up; timer 1 is stopped
beepOff(r) == [r EXCEPT !.piezo = [drive |-> FALSE, b1 |-> FALSE, b2 |-> FALSE], !.tone = FALSE]

\* ISR(TIMER1_COMPA_vect) doing more than the write of PINB: it stops timer 1
isr_StopsTone(r) == [r EXCEPT !.piezo = [@ EXCEPT !.b1 = ~@, !.b2 = ~@], !.tone = FALSE]

\* ISR(TIMER1_COMPA_vect): PINB = 0b00000110 toggles bits 1 and 2 of PORTB
isr(r) == [r EXCEPT !.piezo = [@ EXCEPT !.b1 = ~@, !.b2 = ~@]]

\* --- port B as the registers hold it (pin 8, OUT, is bit 0; pins 9 and 10,
\* --- BELL1 and BELL2, are bits 1 and 2)
Bit(x, n) == (x \div (2 ^ n)) % 2

\* x | y, x & y, x ^ y and ~x on 8 bits
Or8(x, y) ==
    LET b(n) == IF Bit(x, n) = 1 \/ Bit(y, n) = 1 THEN 2 ^ n ELSE 0
    IN  b(0) + b(1) + b(2) + b(3) + b(4) + b(5) + b(6) + b(7)

And8(x, y) ==
    LET b(n) == IF Bit(x, n) = 1 /\ Bit(y, n) = 1 THEN 2 ^ n ELSE 0
    IN  b(0) + b(1) + b(2) + b(3) + b(4) + b(5) + b(6) + b(7)

Xor8(x, y) ==
    LET b(n) == IF Bit(x, n) # Bit(y, n) THEN 2 ^ n ELSE 0
    IN  b(0) + b(1) + b(2) + b(3) + b(4) + b(5) + b(6) + b(7)

Not8(x) == 255 - x

\* the values bits 3..7 of DDRB and of PORTB may hold (no pin of port B
\* above BELL2 is used by the program)
HighBits == {0, 40, 248}

\* DDRB and PORTB for the variables r: OUT is an output, high when the relay
\* is de-asserted
Regs(r, hd, hp) ==
    [ddrb |-> hd + 1 + (IF r.piezo.drive THEN 6 ELSE 0),
     portb |-> hp + (IF r.out = "HIGH" THEN 1 ELSE 0)
                  + (IF r.piezo.b1 THEN 2 ELSE 0) + (IF r.piezo.b2 THEN 4 ELSE 0)]

\* a write of v to PINB: the bits of PORTB where v holds 1 are toggled
WritePinb(p, v) == [p EXCEPT !.portb = Xor8(@, v)]

\* beepOn() on the registers; PINB |= 0b100, one constant bit of a low I/O
\* register, is the single-bit write (sbi) of PINB bit 2
beepOnRegs(p) ==
    LET p1 == [p EXCEPT !.ddrb = Or8(@, 6)]
        p2 == [p1 EXCEPT !.portb = Or8(@, 6)]
    IN  WritePinb(p2, 4)

\* beepOff() clearing the whole of PORTB
beepOffRegs_ClearsPort(p) ==
    LET p1 == [p EXCEPT !.ddrb = And8(@, Not8(6))]
    IN  [p1 EXCEPT !.portb = 0]

\* beepOff() on the registers
beepOffRegs(p) ==
    LET p1 == [p EXCEPT !.ddrb = And8(@, Not8(6))]
    IN  [p1 EXCEPT !.portb = And8(@, Not8(6))]

\* ISR(TIMER1_COMPA_vect) on the registers
isrRegs(p) == WritePinb(p, 6)

\* stop() without the writes of OUT and OUT2
stop_RelayLeft(r) ==
    [r EXCEPT !.timerMain = TimerStop(@), !.timerDots = TimerStop(@),
              !.clockOn = TRUE, !.clockDots = TRUE]

\* stop() clearing the time set
stop_ClearsTime(r) ==
    [r EXCEPT !.out = "HIGH", !.out2 = "HIGH",
              !.timerMain = TimerStop(@), !.timerDots = TimerStop(@),
              !.clockOn = TRUE, !.clockDots = TRUE,
              !.minutes = 0, !.seconds = 0]

stop(r) ==
    [r EXCEPT !.out = "HIGH", !.out2 = "HIGH",
              !.timerMain = TimerStop(@), !.timerDots = TimerStop(@),
              !.clockOn = TRUE, !.clockDots = TRUE]

\* ------------------------------------------------- time setting
\* the record after setMinutes(value) and the value it returns
setMinutes(r, value) ==
    LET m == ToInt8(r.minutes + value)
    IN  IF m >= 99 THEN [r |-> [r EXCEPT !.minutes = 99], ret |-> FALSE]
        ELSE IF m < 0 THEN [r |-> [r EXCEPT !.minutes = 0], ret |-> FALSE]
        ELSE [r |-> [r EXCEPT !.minutes = m], ret |-> TRUE]

\* C++ remainder of a non-negative int8_t by 60
Rem60(x) == x % 60

\* setSeconds() pinning seconds to 0 on every underflow, without the borrow
setSeconds_NoBorrow(r, value) ==
    LET s == ToInt8(r.seconds + value)
        r1 == [r EXCEPT !.seconds = s]
    IN  IF s >= 60
        THEN LET c == setMinutes(r1, 1)
             IN  IF c.ret THEN [c.r EXCEPT !.seconds = Rem60(s)]
                 ELSE [c.r EXCEPT !.seconds = 59]
        ELSE IF s < 0 THEN [r1 EXCEPT !.seconds = 0]
        ELSE r1

setSeconds(r, value) ==
    LET s == ToInt8(r.seconds + value)
        r1 == [r EXCEPT !.seconds = s]
    IN  IF s >= 60
        THEN LET c == setMinutes(r1, 1)
             IN  IF c.ret THEN [c.r EXCEPT !.seconds = Rem60(s)]
                 ELSE [c.r EXCEPT !.seconds = 59]
        ELSE IF s < 0
        THEN LET b == setMinutes(r1, -1)
             IN  IF b.ret THEN [b.r EXCEPT !.seconds = ToInt8(s + 60)]
                 ELSE [b.r EXCEPT !.seconds = 0]
        ELSE r1

\* the multiplier setTime applies to the step
Multiplier(d) ==
    IF d >= 600 THEN 30
    ELSE IF d >= 300 THEN 15
    ELSE IF d >= 120 THEN 10
    ELSE IF d >= 30 THEN 5
    ELSE 1

setTime(r, value) ==
    LET r1 == setSeconds(r, ToInt8(value * Multiplier(r.duration)))
    IN  [r1 EXCEPT !.duration = 60 * r1.minutes + r1.seconds]

\* ------------------------------------------------- alert timers
delay1Of(type) ==
    CASE type = 0 -> 100 [] type = 1 -> 1000 [] type = 2 -> 500
      [] type = 3 -> 100 [] type = 4 -> 1000 [] type = 5 -> 500
      [] type = 6 -> 2000 [] type = 7 -> 1000 [] type = 8 -> 500
      [] OTHER -> 1000

delay2Of(type) ==
    CASE type = 0 -> 90 [] type = 1 -> 500 [] type = 2 -> 250
      [] type = 3 -> 50 [] type = 4 -> 900 [] type = 5 -> 450
      [] type = 6 -> 1500 [] type = 7 -> 50 [] type = 8 -> 40
      [] OTHER -> 500

\* (hi * 2^16 + lo) / d for 16-bit halves hi and lo, in 32-bit steps
DivHiLo(hi, lo, d) == (hi \div d) * 65536 + (((hi % d) * 65536 + lo) \div d)

\* (uint32_t)(bellLength * 1000) / delay1: the product is a 16-bit int; when
\* it overflows the behaviour is undefined and ov is what the build made of
\* it: the wrapped int sign-extended, the wrapped int zero-extended, or the
\* product of a widening multiplication
BellQuotient(len, delay1, ov) ==
    LET p == len * 1000
    IN  IF p <= 32767 THEN p \div delay1
        ELSE CASE ov = "wrap" ->
                    IF ToInt16(p) >= 0 THEN ToInt16(p) \div delay1
                    ELSE DivHiLo(65535, 65536 + ToInt16(p), delay1)
               [] ov = "zext" -> ToUint16(p) \div delay1
               [] OTHER -> p \div delay1

setBeepTimers(r, type, ov) ==
    LET delay1 == delay1Of(ToInt8(type))
        delay2 == delay2Of(ToInt8(type))
        loops == ToUint16(BellQuotient(r.bellLength, delay1, ov))
    IN  [r EXCEPT !.timerBeep1 = TimerSetDelay(@, delay1),
                  !.timerBeep2 = TimerSetDelay(@, delay2),
                  !.bellLoops = loops,
                  !.timerBeep3 = TimerSetDelay(@, ToUint16(loops * delay1))]

\* ------------------------------------------------- state handlers
\* setting(): enc is the encoder poll
setting(r, enc) == IF enc = NoEnc THEN r ELSE setTime(r, enc[1])

\* beeping() without the poll of timerBeep3
beeping_NoBound(r) ==
    LET f1 == TimerFires(r.timerBeep1)
        r1 == [r EXCEPT !.timerBeep1 = TimerUpdate(@)]
        r2 == IF f1 THEN beepOn([r1 EXCEPT !.timerBeep2 = TimerStart(@, Once)]) ELSE r1
        f2 == TimerFires(r2.timerBeep2)
        r3 == [r2 EXCEPT !.timerBeep2 = TimerUpdate(@)]
    IN  IF f2 THEN beepOff(r3) ELSE r3

beeping(r) ==
    LET f1 == TimerFires(r.timerBeep1)
        r1 == [r EXCEPT !.timerBeep1 = TimerUpdate(@)]
        r2 == IF f1 THEN beepOn([r1 EXCEPT !.timerBeep2 = TimerStart(@, Once)]) ELSE r1
        f2 == TimerFires(r2.timerBeep2)
        r3 == [r2 EXCEPT !.timerBeep2 = TimerUpdate(@)]
        r4 == IF f2 THEN beepOff(r3) ELSE r3
        f3 == TimerFires(r4.timerBeep3)
        r5 == [r4 EXCEPT !.timerBeep3 = TimerUpdate(@)]
    IN  IF f3
        THEN stop(beepOff([r5 EXCEPT !.state = "SETTING",
                                     !.timerBeep3 = TimerStop(@),
                                     !.timerBeep2 = TimerStop(@),
                                     !.timerBeep1 = TimerStop(@)]))
        ELSE r5

\* running() with the test of bellLength inverted
running_BellInverted(r) ==
    LET fd == TimerFires(r.timerDots)
        r1 == IF fd
              THEN [r EXCEPT !.timerDots = TimerUpdate(@), !.enable = ~@,
                             !.clockDots = ~r.enable]
              ELSE r
        fm == TimerFires(r1.timerMain)
        r2 == [r1 EXCEPT !.timerMain = TimerUpdate(@)]
    IN  IF fm
        THEN IF r2.bellLength <= 0
             THEN stop([beepOn([r2 EXCEPT !.timerBeep1 = TimerStart(@, Count(r2.bellLoops)),
                                          !.timerBeep2 = TimerStart(@, Once),
                                          !.timerBeep3 = TimerStart(@, Once)])
                        EXCEPT !.state = "BEEPING"])
             ELSE stop([r2 EXCEPT !.state = "SETTING"])
        ELSE r2

\* running() with the test bellLength >= 0
running_AlwaysBeeps(r) ==
    LET fd == TimerFires(r.timerDots)
        r1 == IF fd
              THEN [r EXCEPT !.timerDots = TimerUpdate(@), !.enable = ~@,
                             !.clockDots = ~r.enable]
              ELSE r
        fm == TimerFires(r1.timerMain)
        r2 == [r1 EXCEPT !.timerMain = TimerUpdate(@)]
    IN  IF fm
        THEN IF r2.bellLength >= 0
             THEN stop([beepOn([r2 EXCEPT !.timerBeep1 = TimerStart(@, Count(r2.bellLoops)),
                                          !.timerBeep2 = TimerStart(@, Once),
                                          !.timerBeep3 = TimerStart(@, Once)])
                        EXCEPT !.state = "BEEPING"])
             ELSE stop([r2 EXCEPT !.state = "SETTING"])
        ELSE r2

\* running() finding the countdown expired one poll early
running_FiresEarly(r) ==
    LET fd == TimerFires(r.timerDots)
        r1 == IF fd
              THEN [r EXCEPT !.timerDots = TimerUpdate(@), !.enable = ~@,
                             !.clockDots = ~r.enable]
              ELSE r
        fm == r1.timerMain.st = "Running" /\ r1.timerMain.elapsed + Quantum >= r1.timerMain.delay
        r2 == [r1 EXCEPT !.timerMain = TimerStop(@)]
    IN  IF fm
        THEN IF r2.bellLength > 0
             THEN stop([beepOn([r2 EXCEPT !.timerBeep1 = TimerStart(@, Count(r2.bellLoops)),
                                          !.timerBeep2 = TimerStart(@, Once),
                                          !.timerBeep3 = TimerStart(@, Once)])
                        EXCEPT !.state = "BEEPING"])
             ELSE stop([r2 EXCEPT !.state = "SETTING"])
        ELSE r1

running(r) ==
    LET fd == TimerFires(r.timerDots)
        r1 == IF fd
              THEN [r EXCEPT !.timerDots = TimerUpdate(@), !.enable = ~@,
                             !.clockDots = ~r.enable]
              ELSE r
        fm == TimerFires(r1.timerMain)
        r2 == [r1 EXCEPT !.timerMain = TimerUpdate(@)]
    IN  IF fm
        THEN IF r2.bellLength > 0
             THEN stop([beepOn([r2 EXCEPT !.timerBeep1 = TimerStart(@, Count(r2.bellLoops)),
                                          !.timerBeep2 = TimerStart(@, Once),
                                          !.timerBeep3 = TimerStart(@, Once)])
                        EXCEPT !.state = "BEEPING"])
             ELSE stop([r2 EXCEPT !.state = "SETTING"])
        ELSE r2

\* pause() with the countdown going on
pause_CountsOn(r) ==
    LET r1 == [r EXCEPT !.timerMain = [@ EXCEPT !.elapsed = @ + Quantum]]
    IN  IF TimerFires(r1.timerPause)
        THEN [r1 EXCEPT !.timerPause = TimerUpdate(@), !.enable = ~@, !.clockOn = ~r1.enable]
        ELSE r1

pause(r) ==
    LET r1 == [r EXCEPT !.timerMain = TimerUpdate(@)]
    IN  IF TimerFires(r1.timerPause)
        THEN [r1 EXCEPT !.timerPause = TimerUpdate(@), !.enable = ~@, !.clockOn = ~r1.enable]
        ELSE r1

\* ------------------------------------------------- buttons
\* the cancel of the alert leaving the tone generator running
cancelBeep_ToneLeft(r) ==
    [r EXCEPT !.timerBeep1 = TimerStop(@), !.timerBeep2 = TimerStop(@),
              !.timerBeep3 = TimerStop(@), !.state = "SETTING"]

\* the cancel of the alert, first in manageSW1() and in manageSW2()
cancelBeep(r) ==
    [beepOff([r EXCEPT !.timerBeep1 = TimerStop(@), !.timerBeep2 = TimerStop(@),
                       !.timerBeep3 = TimerStop(@)])
     EXCEPT !.state = "SETTING"]

\* manageSW1(), case SETTING: the countdown is loaded and started
manageSW1_SETTING(r) ==
    [r EXCEPT !.state = "RUN",
              !.timerMain = TimerStart(TimerSetMinutesSeconds(@, r.minutes, r.seconds), Once),
              !.out = "LOW", !.out2 = "LOW",
              !.timerDots = TimerStart(@, Loop)]

\* manageSW1(), case RUN: the countdown is paused
manageSW1_RUN(r) ==
    [r EXCEPT !.timerMain = TimerPause(@), !.timerDots = TimerPause(@),
              !.enable = FALSE, !.clockOn = FALSE,
              !.timerPause = TimerStart(@, Loop),
              !.out = "HIGH", !.out2 = "HIGH", !.state = "PAUSE"]

\* manageSW1(), case PAUSE, starting the blink of the dots again
manageSW1_PAUSE_DotsRestart(r) ==
    [r EXCEPT !.timerMain = TimerPause(@), !.timerDots = TimerStart(@, Loop),
              !.timerPause = TimerStop(@), !.enable = TRUE,
              !.out = "LOW", !.out2 = "LOW", !.state = "RUN",
              !.clockOn = TRUE]

\* manageSW1(), case PAUSE, without clock.enable(true)
manageSW1_PAUSE_DisplayLeft(r) ==
    [r EXCEPT !.timerMain = TimerPause(@), !.timerDots = TimerPause(@),
              !.timerPause = TimerStop(@), !.enable = TRUE,
              !.out = "LOW", !.out2 = "LOW", !.state = "RUN"]

\* manageSW1(), case PAUSE, starting the countdown again instead of resuming it
manageSW1_PAUSE_Restart(r) ==
    [r EXCEPT !.timerMain = TimerStart(@, Once), !.timerDots = TimerPause(@),
              !.timerPause = TimerStop(@), !.enable = TRUE,
              !.out = "LOW", !.out2 = "LOW", !.state = "RUN",
              !.clockOn = TRUE]

\* manageSW1(), case PAUSE: the countdown goes on
manageSW1_PAUSE(r) ==
    [r EXCEPT !.timerMain = TimerPause(@), !.timerDots = TimerPause(@),
              !.timerPause = TimerStop(@), !.enable = TRUE,
              !.out = "LOW", !.out2 = "LOW", !.state = "RUN",
              !.clockOn = TRUE]

\* manageSW1() without the return that ends the cancel of the alert
manageSW1_NoReturn(r, long, just, enc) ==
    LET r1 == IF r.state = "BEEPING" THEN cancelBeep(r) ELSE r
    IN  IF long THEN [stop(r1) EXCEPT !.state = "SETTING"]
        ELSE IF just
        THEN CASE r1.state = "SETTING" -> manageSW1_SETTING(r1)
               [] r1.state = "RUN" -> manageSW1_RUN(r1)
               [] r1.state = "PAUSE" -> manageSW1_PAUSE(r1)
               [] OTHER -> setting(r1, enc)
        ELSE r1

\* manageSW1(), called when sw1.update() is true; long and just are
\* sw1.isLongPressed() and sw1.justPressed(), enc the encoder poll of the
\* default branch
manageSW1(r, long, just, enc) ==
    IF r.state = "BEEPING" THEN cancelBeep(r)
    ELSE IF long THEN [stop(r) EXCEPT !.state = "SETTING"]
    ELSE IF just
    THEN CASE r.state = "SETTING" -> manageSW1_SETTING(r)
           [] r.state = "RUN" -> manageSW1_RUN(r)
           [] r.state = "PAUSE" -> manageSW1_PAUSE(r)
           [] OTHER -> setting(r, enc)
    ELSE r

\* manageSW2() opening the menu from any state
manageSW2_MenuAnywhere(r, long, just) ==
    IF r.state = "BEEPING" THEN cancelBeep(r)
    ELSE IF just
    THEN [r EXCEPT !.state = "MENU", !.pc = "menuNaviguate", !.caller = "manageSW2"]
    ELSE IF long /\ (r.state = "RUN" \/ r.state = "PAUSE")
    THEN [stop(r) EXCEPT !.state = "SETTING"]
    ELSE r

\* manageSW2() with the long press tested in RUN only
manageSW2_RunOnly(r, long, just) ==
    IF r.state = "BEEPING" THEN cancelBeep(r)
    ELSE IF just /\ r.state = "SETTING"
    THEN [r EXCEPT !.state = "MENU", !.pc = "menuNaviguate", !.caller = "manageSW2"]
    ELSE IF long /\ r.state = "RUN"
    THEN [stop(r) EXCEPT !.state = "SETTING"]
    ELSE r

\* manageSW2(), called when sw2.update() is true; the call of
\* menuNaviguate() is the move of pc
manageSW2(r, long, just) ==
    IF r.state = "BEEPING" THEN cancelBeep(r)
    ELSE IF just /\ r.state = "SETTING"
    THEN [r EXCEPT !.state = "MENU", !.pc = "menuNaviguate", !.caller = "manageSW2"]
    ELSE IF long /\ (r.state = "RUN" \/ r.state = "PAUSE")
    THEN [stop(r) EXCEPT !.state = "SETTING"]
    ELSE r

\* the switch of loop()
loopSwitch(r, enc) ==
    CASE r.state = "SETTING" -> setting(r, enc)
      [] r.state = "RUN" -> running(r)
      [] r.state = "PAUSE" -> pause(r)
      [] r.state = "BEEPING" -> beeping(r)
      [] r.state = "MENU" -> [r EXCEPT !.pc = "menuNaviguate", !.caller = "loop"]
      [] OTHER -> setting(r, enc)

\* ------------------------------------------------- persistent store
EepromTop == memAdd + 2 * maxStore + 1

\* EEPROM.update(a, v): the byte is written when it differs
EepromUpdate(e, a, v) == IF e[a] = ToUint8(v) THEN e ELSE [e EXCEPT ![a] = ToUint8(v)]

\* whether EEPROM.update(a, v) writes the byte
EepromWrote(e, a, v) == e[a] # ToUint8(v)

\* the bytes [lo, hi] of e set to zero
ZeroBytes(e, lo, hi) == [a \in DOMAIN e |-> IF lo <= a /\ a <= hi THEN 0 ELSE e[a]]

eepromInit(e) ==
    ZeroBytes([e EXCEPT ![brightAdd] = 8, ![bellTAdd] = 1, ![bellLAdd] = 5],
              memAdd, memAdd + (maxStore - 1) + 1)

\* ------------------------------------------------- menu
\* the end of menuNaviguate() after its loop, and the return to the caller
menuExit(r) ==
    [stop([r EXCEPT !.clockDots = TRUE])
     EXCEPT !.pc = IF r.caller = "manageSW2" THEN "dispatch" ELSE "sw1", !.work = 0]

\* the loop condition of menuNaviguate(), where the editors return
menuWhile(r) ==
    IF r.state = "MENU" THEN [r EXCEPT !.pc = "menuNaviguate", !.work = 0] ELSE menuExit(r)

\* menuNaviguate() going from the last item round to the first
menuNaviguate_Wrap(r, enc, b1, b2) ==
    LET step == IF enc = NoEnc THEN 0 ELSE enc[1]
        up == IF step > 0 THEN (r.menuState + 1) % (SOUND_LENGTH + 1) ELSE r.menuState
        item == IF step < 0 /\ up > 0 THEN up - 1 ELSE up
        menuClicked == b1.upd /\ b1.just
        r1 == [r EXCEPT !.menuState = item,
                        !.state = IF b2.upd /\ b2.just THEN "SETTING" ELSE @]
    IN  IF ~menuClicked THEN menuWhile(r1)
        ELSE CASE item = MEM_STORE -> [r1 EXCEPT !.pc = "storeTime", !.work = r1.currentMem]
               [] item = MEM_RECALL -> [r1 EXCEPT !.pc = "recallTime", !.work = r1.currentMem]
               [] item = BRIGHTNESS -> [r1 EXCEPT !.pc = "setBrightness", !.work = r1.brightness]
               [] item = SOUND_TYPE -> [r1 EXCEPT !.pc = "setBellType", !.work = r1.bellType]
               [] item = SOUND_LENGTH -> [r1 EXCEPT !.pc = "setBellLength", !.work = r1.bellLength]
               [] OTHER -> menuWhile(r1)

\* one iteration of the loop of menuNaviguate(); b1 and b2 are the polls of
\* sw1 and sw2.  The call of an editor is the move of pc, with the local
\* the editor starts from.
menuNaviguate(r, enc, b1, b2) ==
    LET step == IF enc = NoEnc THEN 0 ELSE enc[1]
        up == IF step > 0 /\ r.menuState < SOUND_LENGTH THEN r.menuState + 1 ELSE r.menuState
        item == IF step < 0 /\ up > 0 THEN up - 1 ELSE up
        menuClicked == b1.upd /\ b1.just
        r1 == [r EXCEPT !.menuState = item,
                        !.state = IF b2.upd /\ b2.just THEN "SETTING" ELSE @]
    IN  IF ~menuClicked THEN menuWhile(r1)
        ELSE CASE item = MEM_STORE -> [r1 EXCEPT !.pc = "storeTime", !.work = r1.currentMem]
               [] item = MEM_RECALL -> [r1 EXCEPT !.pc = "recallTime", !.work = r1.currentMem]
               [] item = BRIGHTNESS -> [r1 EXCEPT !.pc = "setBrightness", !.work = r1.brightness]
               [] item = SOUND_TYPE -> [r1 EXCEPT !.pc = "setBellType", !.work = r1.bellType]
               [] item = SOUND_LENGTH -> [r1 EXCEPT !.pc = "setBellLength", !.work = r1.bellLength]
               [] OTHER -> menuWhile(r1)

\* the slot index after an encoder poll in storeTime() and recallTime()
MemStep(mem, enc) ==
    IF enc = NoEnc THEN mem
    ELSE LET m == ToUint8(mem + enc[1])
             m1 == IF m < 1 THEN 1 ELSE m
         IN  IF m1 > maxStore THEN maxStore ELSE m1

\* storeTime() with EEPROM.write() for EEPROM.update(): the two bytes are
\* written whatever the store holds
storeTime_Rewrites(r, enc, j1, j2) ==
    LET mem == MemStep(r.work, enc)
        r1 == [r EXCEPT !.work = mem]
    IN  IF j1
        THEN menuWhile([r1 EXCEPT !.currentMem = mem,
                 !.eeprom = [@ EXCEPT ![memAdd + 2 * mem] = ToUint8(r.minutes),
                                      ![memAdd + 2 * mem + 1] = ToUint8(r.seconds)],
                 !.updates = @ \o <<TRUE, TRUE>>])
        ELSE IF j2 THEN menuWhile(r1)
        ELSE r1

\* storeTime() writing slot mem at memAdd + mem, one byte per slot apart
storeTime_Packed(r, enc, j1, j2) ==
    LET mem == MemStep(r.work, enc)
        r1 == [r EXCEPT !.work = mem]
    IN  IF j1
        THEN menuWhile([r1 EXCEPT !.currentMem = mem,
                 !.eeprom = EepromUpdate(EepromUpdate(@, memAdd + mem, r.minutes),
                                         memAdd + mem + 1, r.seconds)])
        ELSE IF j2 THEN menuWhile(r1)
        ELSE r1

\* storeTime() addressing the records from address 0 instead of memAdd
storeTime_NoBase(r, enc, j1, j2) ==
    LET mem == MemStep(r.work, enc)
        r1 == [r EXCEPT !.work = mem]
    IN  IF j1
        THEN menuWhile([r1 EXCEPT !.currentMem = mem,
                 !.eeprom = EepromUpdate(EepromUpdate(@, 2 * mem, r.minutes),
                                         2 * mem + 1, r.seconds),
                 !.updates = @ \o <<EepromWrote(r.eeprom, 2 * mem, r.minutes),
                                    EepromWrote(r.eeprom, 2 * mem + 1, r.seconds)>>])
        ELSE IF j2 THEN menuWhile(r1)
        ELSE r1

\* one iteration of the loop of storeTime(); j1 and j2 are sw1.justPressed()
\* and sw2.justPressed()
storeTime(r, enc, j1, j2) ==
    LET mem == MemStep(r.work, enc)
        r1 == [r EXCEPT !.work = mem]
    IN  IF j1
        THEN menuWhile([r1 EXCEPT !.currentMem = mem,
                 !.eeprom = EepromUpdate(EepromUpdate(@, memAdd + 2 * mem, r.minutes),
                                         memAdd + 2 * mem + 1, r.seconds),
                 !.updates = @ \o <<EepromWrote(r.eeprom, memAdd + 2 * mem, r.minutes),
                                    EepromWrote(r.eeprom, memAdd + 2 * mem + 1, r.seconds)>>])
        ELSE IF j2 THEN menuWhile(r1)
        ELSE r1

recallTime(r, enc, j1, j2) ==
    LET mem == MemStep(r.work, enc)
        r1 == [r EXCEPT !.work = mem]
    IN  IF j1
        THEN menuWhile([r1 EXCEPT !.currentMem = mem,
                                  !.minutes = ToInt8(r.eeprom[memAdd + 2 * mem]),
                                  !.seconds = ToInt8(r.eeprom[memAdd + 2 * mem + 1]),
                                  !.state = "SETTING"])
        ELSE IF j2 THEN menuWhile(r1)
        ELSE r1

setBrightness(r, enc, j1, j2) ==
    LET t0 == IF enc = NoEnc THEN r.work ELSE ToUint8(r.work + enc[1])
        t1 == IF enc # NoEnc /\ t0 < 1 THEN 1 ELSE t0
        tempBrightness == IF enc # NoEnc /\ t1 > 16 THEN 16 ELSE t1
        r1 == [r EXCEPT !.work = tempBrightness, !.intensity = ToUint8(tempBrightness - 1)]
    IN  IF j1
        THEN menuWhile([r1 EXCEPT !.brightness = tempBrightness,
                                  !.eeprom = EepromUpdate(@, brightAdd, tempBrightness),
                                  !.updates = @ \o <<EepromWrote(r.eeprom, brightAdd,
                                                                 tempBrightness)>>,
                                  !.intensity = ToUint8(tempBrightness - 1)])
        ELSE IF j2 THEN menuWhile([r1 EXCEPT !.intensity = ToUint8(r.brightness - 1)])
        ELSE r1

\* one iteration of setBrightness() of the earlier board variant: confirm
\* and cancel return from inside the loop
setBrightnessV1(r, enc, j1, j2) ==
    LET t0 == IF enc = NoEnc THEN r.work ELSE ToUint8(r.work + enc[1])
        t1 == IF enc # NoEnc /\ t0 < 1 THEN 1 ELSE t0
        tempBrightness == IF enc # NoEnc /\ t1 > 16 THEN 16 ELSE t1
        r1 == [r EXCEPT !.work = tempBrightness, !.intensity = ToUint8(tempBrightness - 1)]
    IN  IF j1
        THEN menuWhile([r1 EXCEPT !.brightness = tempBrightness,
                                  !.eeprom = EepromUpdate(@, brightAdd, tempBrightness),
                                  !.updates = @ \o <<EepromWrote(r.eeprom, brightAdd,
                                                                 tempBrightness)>>])
        ELSE IF j2 THEN menuWhile(r1)
        ELSE r1

\* the local after an encoder poll in setBellType() and setBellLength()
BellStep(v, enc, max) ==
    IF enc = NoEnc THEN v
    ELSE IF enc[1] > 0 THEN (IF ToUint8(v + 1) > max THEN max ELSE ToUint8(v + 1))
    ELSE IF v > 0 THEN v - 1 ELSE v

\* ov: what the build made of the overflow in setBeepTimers()
setBellType(r, enc, j1, j2, ov) ==
    LET type == BellStep(r.work, enc, maxType)
        r1 == [r EXCEPT !.work = type]
    IN  IF j1
        THEN menuWhile(setBeepTimers([r1 EXCEPT !.bellType = type,
                                                !.eeprom = EepromUpdate(@, bellTAdd, type),
                                                !.updates = @ \o <<EepromWrote(r.eeprom,
                                                                     bellTAdd, type)>>],
                                     type, ov))
        ELSE IF j2 THEN menuWhile(r1)
        ELSE r1

setBellLength(r, enc, j1, j2, ov) ==
    LET length == BellStep(r.work, enc, maxTime)
        r1 == [r EXCEPT !.work = length]
    IN  IF j1
        THEN menuWhile(setBeepTimers([r1 EXCEPT !.bellLength = length,
                                                !.eeprom = EepromUpdate(@, bellLAdd, length),
                                                !.updates = @ \o <<EepromWrote(r.eeprom,
                                                                     bellLAdd, length)>>],
                                     r1.bellType, ov))
        ELSE IF j2 THEN menuWhile(r1)
        ELSE r1

\* ------------------------------------------------- start
\* an erased store
Erased == [a \in 0 .. EepromTop |-> 255]

\* the stores Spec starts from: initialised by eepromInit(), then the
\* brightness, the alert type and the alert length left by earlier sessions
InitEeproms ==
    {[eepromInit(Erased) EXCEPT ![brightAdd] = b, ![bellTAdd] = t, ![bellLAdd] = l] :
        b \in SpecBrightness, t \in SpecTypes, l \in 0 .. MaxBellLength}

\* setup() up to the call of setBeepTimers(), with what it sets after the
\* call; boot: sw1 is held and sw2 is not, which runs eepromInit()
setupRead(e, boot) ==
    [pc |-> "setup", caller |-> "manageSW2", state |-> "SETTING",
     menuState |-> MEM_RECALL, work |-> 0,
     out |-> "HIGH", out2 |-> "HIGH", tone |-> FALSE, enable |-> FALSE,
     clockOn |-> TRUE, clockDots |-> TRUE,
     intensity |-> ToUint8(e[brightAdd] - 1),
     minutes |-> 0, seconds |-> 0, duration |-> 0,
     brightness |-> e[brightAdd], bellType |-> e[bellTAdd],
     bellLength |-> e[bellLAdd], bellLoops |-> 0, currentMem |-> 1,
     timerMain |-> TimerInit,
     timerDots |-> TimerSetDelay(TimerInit, 500),
     timerPause |-> TimerSetDelay(TimerInit, 500),
     timerBeep1 |-> TimerInit, timerBeep2 |-> TimerInit,
     timerBeep3 |-> TimerInit,
     eeprom |-> IF boot THEN eepromInit(e) ELSE e,
     updates |-> <<>>,
     piezo |-> [drive |-> FALSE, b1 |-> FALSE, b2 |-> FALSE]]

\* the variables after setup() on the store e
setup(e, boot, ov) ==
    LET r0 == setupRead(e, boot)
    IN  [setBeepTimers(r0, r0.bellType, ov) EXCEPT !.pc = "sw1"]

\* Spec starts from a power-up with sw1 released
BootInputs == {FALSE}

\* the overflow outcomes that differ for an alert length
OvChoices(len) == IF len * 1000 > 32767 THEN Overflows ELSE {"exact"}

\* no Store confirmed since power-up
NoneStored == [k \in 1 .. maxStore |-> <<>>]

Init ==
    /\ \E e \in InitEeproms, boot \in BootInputs :
          \E ov \in OvChoices(e[bellLAdd]) : Start(setup(e, boot, ov))
    /\ prevState = "SETTING"
    /\ prevPc = "setup"
    /\ runTime = 0
    /\ beepClock = 0
    /\ pulses = 0
    /\ stored = NoneStored

\* ------------------------------------------------- steps
\* the bounds of Spec on what a step may set
InBounds(r) ==
    /\ r.duration <= MaxDuration
    /\ 60 * r.minutes + r.seconds <= MaxDuration
    /\ r.pc \in {"storeTime", "recallTime"} => r.work \in SpecSlots
    /\ r.pc = "setBrightness" => r.work \in SpecBrightness
    /\ r.pc = "setBellType" => r.work \in SpecTypes
    /\ r.pc = "setBellLength" => r.work <= MaxBellLength
    /\ r.currentMem \in SpecSlots
    /\ r.brightness \in SpecBrightness
    /\ r.bellType \in SpecTypes
    /\ r.bellLength <= MaxBellLength

\* the history variables after a step to r; timed: the step polls the
\* clock, Quantum later than the poll before
History(r, timed) ==
    /\ prevState' = state
    /\ prevPc' = pc
    /\ runTime' = IF state = "SETTING" /\ r.state = "RUN" THEN 0
                  ELSE IF timed /\ state = "RUN" THEN runTime + Quantum
                  ELSE IF timed /\ state # "PAUSE" THEN 0
                  ELSE runTime
    /\ beepClock' = IF state # "BEEPING" /\ r.state = "BEEPING" THEN 0
                    ELSE IF timed /\ state = "BEEPING" THEN beepClock + Quantum
                    ELSE IF timed THEN 0
                    ELSE beepClock
    /\ pulses' = IF state # "BEEPING" /\ r.state = "BEEPING" THEN (IF r.tone THEN 1 ELSE 0)
                 ELSE IF ~tone /\ r.tone THEN pulses + 1
                 ELSE IF timed /\ state # "BEEPING" THEN 0
                 ELSE pulses

\* stored after an iteration of storeTime() that ends in r; j1: sw1 was
\* just pressed, the Store of the time set is confirmed at the slot shown,
\* which currentMem keeps
Memorise(r, j1) ==
    stored' = IF j1 THEN [stored EXCEPT ![r.currentMem] = <<minutes, seconds>>] ELSE stored

Step(r, timed) == InBounds(r) /\ Commit(r) /\ History(r, timed) /\ stored' = stored

\* a step to r that no bound of Spec guards
Free(r, timed) == Commit(r) /\ History(r, timed) /\ stored' = stored

\* loop(): if(sw1.update()) manageSW1();
LoopSW1 ==
    /\ pc = "sw1"
    /\ \E b \in BtnInputs, enc \in (IF state = "MENU" THEN EncInputs ELSE {NoEnc}) :
          LET r0 == [Tick(Cur) EXCEPT !.pc = "sw2"]
          IN  Step(IF b.upd THEN manageSW1(r0, b.long, b.just, enc) ELSE r0, TRUE)

\* loop(): if(sw2.update()) manageSW2();
LoopSW2 ==
    /\ pc = "sw2"
    /\ \E b \in BtnInputs :
          LET r0 == [Cur EXCEPT !.pc = "dispatch"]
          IN  Step(IF b.upd THEN manageSW2(r0, b.long, b.just) ELSE r0, FALSE)

\* loop(): switch(state)
LoopDispatch ==
    /\ pc = "dispatch"
    /\ \E enc \in (IF state \in {"RUN", "PAUSE", "BEEPING", "MENU"} THEN {NoEnc}
                   ELSE EncInputs) :
          Step(loopSwitch([Cur EXCEPT !.pc = "sw1"], enc), FALSE)

MenuStep ==
    /\ pc = "menuNaviguate"
    /\ \E enc \in EncInputs, b1 \in MenuBtnInputs, b2 \in MenuBtnInputs :
          Step(menuNaviguate(Tick(Cur), enc, b1, b2), TRUE)

StoreTimeStep ==
    /\ pc = "storeTime"
    /\ \E enc \in EncInputs, j1 \in BOOLEAN, j2 \in BOOLEAN :
          LET r == storeTime(Tick(Cur), enc, j1, j2)
          IN  InBounds(r) /\ Commit(r) /\ History(r, TRUE) /\ Memorise(r, j1)

RecallTimeStep ==
    /\ pc = "recallTime"
    /\ \E enc \in EncInputs, j1 \in BOOLEAN, j2 \in BOOLEAN :
          Step(recallTime(Tick(Cur), enc, j1, j2), TRUE)

SetBrightnessStep ==
    /\ pc = "setBrightness"
    /\ \E enc \in EncInputs, j1 \in BOOLEAN, j2 \in BOOLEAN :
          Step(setBrightness(Tick(Cur), enc, j1, j2), TRUE)

SetBellTypeStep ==
    /\ pc = "setBellType"
    /\ \E enc \in EncInputs, j1 \in BOOLEAN, j2 \in BOOLEAN :
          \E ov \in OvChoices(bellLength) :
             Step(setBellType(Tick(Cur), enc, j1, j2, ov), TRUE)

SetBellLengthStep ==
    /\ pc = "setBellLength"
    /\ \E enc \in EncInputs, j1 \in BOOLEAN, j2 \in BOOLEAN :
          \E ov \in OvChoices(BellStep(work, enc, maxTime)) :
             Step(setBellLength(Tick(Cur), enc, j1, j2, ov), TRUE)

Next ==
    \/ LoopSW1
    \/ LoopSW2
    \/ LoopDispatch
    \/ MenuStep
    \/ StoreTimeStep
    \/ RecallTimeStep
    \/ SetBrightnessStep
    \/ SetBellTypeStep
    \/ SetBellLengthStep

Spec == Init /\ [][Next]_vars

\* ------------------------------------------------- setTime alone
Int8 == -128 .. 127

\* a step that leaves the history variables alone
Quiet(r) == Commit(r) /\ UNCHANGED <<prevState, prevPc, runTime, beepClock, pulses, stored>>

\* SETTING with any valid time set, the cached duration that of the time
InitSetTime ==
    /\ \E m \in 0 .. 99, s \in 0 .. 59 :
          Start([setup(eepromInit(Erased), FALSE, "exact")
                 EXCEPT !.pc = "dispatch", !.minutes = m, !.seconds = s,
                        !.duration = 60 * m + s])
    /\ prevState = "SETTING"
    /\ prevPc = "setup"
    /\ runTime = 0
    /\ beepClock = 0
    /\ pulses = 0
    /\ stored = NoneStored

\* setting() with the encoder turned: setTime(encoder.getStep())
SetTimeCall ==
    /\ pc = "dispatch" /\ state = "SETTING"
    /\ \E value \in Int8 : Free(setTime(Cur, value), FALSE)

NextSetTime == SetTimeCall

SpecSetTime == InitSetTime /\ [][NextSetTime]_vars

\* ------------------------------------------------- setBeepTimers alone
\* the stores with every alert type and every alert length of the menu
ConfigEeproms ==
    {[eepromInit(Erased) EXCEPT ![bellTAdd] = t, ![bellLAdd] = l] :
        t \in 0 .. maxType, l \in 0 .. maxTime}

\* setup() has read the store and is to call setBeepTimers()
InitBeepTimers ==
    /\ \E e \in ConfigEeproms : Start(setupRead(e, FALSE))
    /\ prevState = "SETTING"
    /\ prevPc = "setup"
    /\ runTime = 0
    /\ beepClock = 0
    /\ pulses = 0
    /\ stored = NoneStored

\* setup(): setBeepTimers(bellType)
SetupBeepTimers ==
    /\ pc = "setup"
    /\ \E ov \in OvChoices(bellLength) :
          Quiet([setBeepTimers(Cur, bellType, ov) EXCEPT !.pc = "sw1"])

NextBeepTimers == SetupBeepTimers

SpecBeepTimers == InitBeepTimers /\ [][NextBeepTimers]_vars

\* ------------------------------------------------- the alert alone
\* the alert types whose two delays the polls of SpecAlert sample exactly
AlertTypes ==
    {t \in 0 .. maxType : delay1Of(t) % Quantum = 0 /\ delay2Of(t) % Quantum = 0}

AlertEeproms ==
    {[eepromInit(Erased) EXCEPT ![bellTAdd] = t, ![bellLAdd] = l] :
        t \in AlertTypes, l \in 0 .. maxTime}

\* sw1 has just started a countdown of 00:00 in the first pass after setup()
InitAlert ==
    /\ \E e \in AlertEeproms :
          \E ov \in OvChoices(e[bellLAdd]) :
             Start(manageSW1([Tick(setup(e, FALSE, ov)) EXCEPT !.pc = "sw2"],
                             FALSE, TRUE, NoEnc))
    /\ prevState = "SETTING"
    /\ prevPc = "setup"
    /\ runTime = 0
    /\ beepClock = 0
    /\ pulses = 0
    /\ stored = NoneStored

\* loop() with no button event and the encoder at rest
AlertSW1 == pc = "sw1" /\ Free([Tick(Cur) EXCEPT !.pc = "sw2"], TRUE)

AlertSW2 == pc = "sw2" /\ Free([Cur EXCEPT !.pc = "dispatch"], FALSE)

AlertDispatch == pc = "dispatch" /\ Free(loopSwitch([Cur EXCEPT !.pc = "sw1"], NoEnc), FALSE)

NextAlert ==
    \/ AlertSW1
    \/ AlertSW2
    \/ AlertDispatch

SpecAlert == InitAlert /\ [][NextAlert]_vars

\* the alert lengths of SpecAlertLive: none, short ones, and those whose
\* product by 1000 overflows once and twice; every alert type
LiveLengths == {0, 1, 2, 33, 66, maxTime}

LiveEeproms ==
    {[eepromInit(Erased) EXCEPT ![bellTAdd] = t, ![bellLAdd] = l] :
        t \in 0 .. maxType, l \in LiveLengths}

\* as InitAlert, on the stores of LiveEeproms
InitAlertLive ==
    /\ \E e \in LiveEeproms :
          \E ov \in OvChoices(e[bellLAdd]) :
             Start(manageSW1([Tick(setup(e, FALSE, ov)) EXCEPT !.pc = "sw2"],
                             FALSE, TRUE, NoEnc))
    /\ prevState = "SETTING"
    /\ prevPc = "setup"
    /\ runTime = 0
    /\ beepClock = 0
    /\ pulses = 0
    /\ stored = NoneStored

\* loop() never stops: the passes go on for ever
SpecAlertLive == InitAlertLive /\ [][NextAlert]_vars /\ WF_vars(NextAlert)

\* ------------------------------------------------- the alert and its interrupt
\* the compare interrupt of timer 1, taken between two steps of loop()
\* while timer 1 runs
ToneISR ==
    /\ tone
    /\ Quiet(isr(Cur))

NextTone ==
    \/ AlertSW1
    \/ AlertSW2
    \/ AlertDispatch
    \/ ToneISR

SpecTone == InitAlertLive /\ [][NextTone]_vars

\* ------------------------------------------------- the memories alone
\* the slots, the times and the encoder steps of SpecMem: the first two
\* slots and the last, four times that setTime() reaches from one another
MemSlots == {1, 2, maxStore}
MemTimes == {<<0, 0>>, <<0, 59>>, <<1, 4>>, <<2, 29>>}
MemSteps == {-63, -1, 1, 63}
MemEnc == {NoEnc} \cup {<<x>> : x \in MemSteps}

\* the bounds of SpecMem on what a step may set
MemBounds(r) ==
    /\ <<r.minutes, r.seconds>> \in MemTimes
    /\ r.menuState \in {MEM_RECALL, MEM_STORE}
    /\ r.pc \in {"storeTime", "recallTime"} => r.work \in MemSlots
    /\ r.currentMem \in MemSlots

\* SpecMem starts after setup() on a store initialised by eepromInit()
InitMem ==
    /\ Start(setup(eepromInit(Erased), FALSE, "exact"))
    /\ prevState = "SETTING"
    /\ prevPc = "setup"
    /\ runTime = 0
    /\ beepClock = 0
    /\ pulses = 0
    /\ stored = NoneStored

\* loop(): sw1.update() is false, sw1 is left alone
MemLoopSW1 ==
    /\ pc = "sw1"
    /\ Free([Tick(Cur) EXCEPT !.pc = "sw2"], TRUE)

\* loop(): if(sw2.update()) manageSW2(); sw2 is pressed or left alone
MemLoopSW2 ==
    /\ pc = "sw2"
    /\ \E b \in MenuBtnInputs :
          LET r0 == [Cur EXCEPT !.pc = "dispatch"]
              r == IF b.upd THEN manageSW2(r0, b.long, b.just) ELSE r0
          IN  MemBounds(r) /\ Free(r, FALSE)

\* loop(): switch(state), with every step of the encoder
MemLoopDispatch ==
    /\ pc = "dispatch"
    /\ \E enc \in {NoEnc} \cup {<<x>> : x \in Int8} :
          LET r == loopSwitch([Cur EXCEPT !.pc = "sw1"], enc)
          IN  MemBounds(r) /\ Free(r, FALSE)

MemMenu ==
    /\ pc = "menuNaviguate"
    /\ \E enc \in EncInputs, b1 \in MenuBtnInputs, b2 \in MenuBtnInputs :
          LET r == menuNaviguate(Tick(Cur), enc, b1, b2)
          IN  MemBounds(r) /\ Free(r, TRUE)

MemStore ==
    /\ pc = "storeTime"
    /\ \E enc \in MemEnc, j1 \in BOOLEAN, j2 \in BOOLEAN :
          LET r == storeTime(Tick(Cur), enc, j1, j2)
          IN  MemBounds(r) /\ Commit(r) /\ History(r, TRUE) /\ Memorise(r, j1)

MemRecall ==
    /\ pc = "recallTime"
    /\ \E enc \in MemEnc, j1 \in BOOLEAN, j2 \in BOOLEAN :
          LET r == recallTime(Tick(Cur), enc, j1, j2)
          IN  MemBounds(r) /\ Free(r, TRUE)

NextMem ==
    \/ MemLoopSW1
    \/ MemLoopSW2
    \/ MemLoopDispatch
    \/ MemMenu
    \/ MemStore
    \/ MemRecall

SpecMem == InitMem /\ [][NextMem]_vars

\* ------------------------------------------------- the store's initialisation
\* the stores a power-up may find: every byte holding the same value (255
\* is the erased store)
RawStores == {[a \in 0 .. EepromTop |-> v] : v \in 0 .. 255}

\* setup() of the initialisation sketch up to its loop: the store is
\* initialised when the brightness read is not 8; minutes, seconds and work
\* hold the locals minutes, seconds and i
sketchSetup(r) ==
    LET b == r.eeprom[brightAdd]
    IN  IF b # 8
        THEN [r EXCEPT !.brightness = b,
                       !.eeprom = [@ EXCEPT ![brightAdd] = 8, ![bellTAdd] = 1,
                                            ![bellLAdd] = 5],
                       !.seconds = 15, !.minutes = 0, !.work = 0,
                       !.pc = "sketchFor"]
        ELSE [r EXCEPT !.brightness = b, !.pc = "sketch"]

\* one iteration of the loop of the sketch's setup(), which leaves for the
\* empty loop() after the record 63
sketchFor(r) ==
    LET i == r.work
        s1 == ToUint8(r.seconds + 15)
    IN  [r EXCEPT !.eeprom = [@ EXCEPT ![memAdd + 2 * i] = r.minutes,
                                       ![memAdd + 2 * i + 1] = r.seconds],
                  !.seconds = IF s1 > 59 THEN 0 ELSE s1,
                  !.minutes = IF s1 > 59 THEN ToUint8(@ + 1) ELSE @,
                  !.work = ToUint8(i + 1),
                  !.pc = IF ToUint8(i + 1) < 64 THEN "sketchFor" ELSE "sketch"]

\* power is applied, no program has run
InitStore ==
    /\ \E e \in RawStores : Start([setupRead(e, FALSE) EXCEPT !.pc = "power"])
    /\ prevState = "SETTING"
    /\ prevPc = "power"
    /\ runTime = 0
    /\ beepClock = 0
    /\ pulses = 0
    /\ stored = NoneStored

\* the board program starts with sw1 held and sw2 released: setup() shows
\* the version and runs eepromInit()
BootInit ==
    /\ pc = "power"
    /\ \E ov \in OvChoices(eeprom[bellLAdd]) : Quiet(setup(eeprom, TRUE, ov))

\* the initialisation sketch runs: its setup() up to the loop
SketchSetup ==
    /\ pc = "power"
    /\ Quiet(sketchSetup(Cur))

SketchFor ==
    /\ pc = "sketchFor"
    /\ Quiet(sketchFor(Cur))

NextStore ==
    \/ BootInit
    \/ SketchSetup
    \/ SketchFor

SpecStore == InitStore /\ [][NextStore]_vars

\* ------------------------------------------------- properties
\* the duration set, in milliseconds
SetMillis == (60 * minutes + seconds) * 1000

\* C1: at the end of every pass of loop() the relay is asserted (OUT is LOW)
\* if and only if state is RUN; in MENU, which no pass ends in, it is
\* de-asserted as well
C1_RelayIffRun ==
    /\ pc = "sw1" => ((out = "LOW") <=> (state = "RUN"))
    /\ state = "MENU" => out = "HIGH"

\* a pass ends in RUN, the relay asserted, after time has passed in RUN
C1_Witness == pc = "sw1" /\ state = "RUN" /\ prevState = "RUN" /\ out = "LOW" /\ runTime > 0

\* C2: a short press of sw1 in SETTING moves to RUN with the relay asserted
\* and the countdown loaded with the duration set; the time passed in RUN
\* never exceeds the duration set, and the pass of running() that finds it
\* reached moves to BEEPING when bellLength > 0 and to SETTING when
\* bellLength = 0, the relay de-asserted in both cases; before that, running()
\* stays in RUN
C2_StartAndExpiry ==
    [][/\ (pc = "sw1" /\ state = "SETTING") =>
             LET r == manageSW1([Tick(Cur) EXCEPT !.pc = "sw2"], FALSE, TRUE, NoEnc)
             IN  /\ r.state = "RUN"
                 /\ r.out = "LOW"
                 /\ r.timerMain.st = "Running"
                 /\ r.timerMain.delay = SetMillis
                 /\ TimerRemaining(r.timerMain) = SetMillis
       /\ state = "RUN" => runTime <= SetMillis
       /\ (pc = "dispatch" /\ state = "RUN") =>
             IF runTime >= SetMillis
             THEN /\ state' = (IF bellLength > 0 THEN "BEEPING" ELSE "SETTING")
                  /\ out' = "HIGH"
             ELSE state' = "RUN" /\ out' = "LOW"]_vars

\* a countdown of a second or more has expired into BEEPING after exactly
\* the duration set
C2_Witness ==
    /\ pc = "sw1" /\ prevState = "RUN" /\ state = "BEEPING" /\ out = "HIGH"
    /\ runTime = SetMillis /\ runTime >= 1000

\* C3: a long press of sw1 or of sw2 in RUN or PAUSE results in SETTING with
\* the relay de-asserted and the countdown stopped, whatever time remains
\* and whatever justPressed() reads
C3_LongPressAborts ==
    state \in {"RUN", "PAUSE"} =>
        /\ pc = "sw1" =>
              \A just \in BOOLEAN :
                 LET r == manageSW1([Tick(Cur) EXCEPT !.pc = "sw2"], TRUE, just, NoEnc)
                 IN  r.state = "SETTING" /\ r.out = "HIGH" /\ r.timerMain.st = "Stopped"
        /\ pc = "sw2" =>
              \A just \in BOOLEAN :
                 LET r == manageSW2([Cur EXCEPT !.pc = "dispatch"], TRUE, just)
                 IN  r.state = "SETTING" /\ r.out = "HIGH" /\ r.timerMain.st = "Stopped"

\* sw2 has aborted a paused countdown that had time left
C3_Witness ==
    /\ pc = "dispatch" /\ prevState = "PAUSE" /\ state = "SETTING"
    /\ out = "HIGH" /\ timerMain.st = "Stopped"
    /\ 0 < runTime /\ runTime < SetMillis

\* C5: in RUN and in PAUSE the time the countdown has left is the duration
\* set less the time passed in RUN; it does not change while the pause
\* lasts nor at the resume; and running() ends the countdown when the time
\* passed in RUN is the duration set
C5_PauseResume ==
    [][/\ state \in {"RUN", "PAUSE"} => TimerRemaining(timerMain) = SetMillis - runTime
       /\ (state = "PAUSE" /\ state' \in {"PAUSE", "RUN"}) =>
             TimerRemaining(timerMain') = TimerRemaining(timerMain)
       /\ (pc = "dispatch" /\ state = "RUN" /\ state' # "RUN") => runTime = SetMillis]_vars

\* the countdown has just been resumed with part of the duration left
C5_Witness ==
    /\ pc = "sw2" /\ prevState = "PAUSE" /\ state = "RUN"
    /\ timerMain.st = "Running"
    /\ 0 < runTime /\ runTime < SetMillis
    /\ TimerRemaining(timerMain) = SetMillis - runTime

\* C6: in BEEPING every event of sw1 or of sw2 stops the three beep timers,
\* turns the tone off (timer 1 stopped, the piezo pins released) and sets
\* state to SETTING, and the handler changes nothing else
C6_AnyButtonCancels ==
    state = "BEEPING" =>
        /\ pc = "sw1" =>
              \A long \in BOOLEAN, just \in BOOLEAN :
                 LET r0 == [Tick(Cur) EXCEPT !.pc = "sw2"]
                 IN  manageSW1(r0, long, just, NoEnc) =
                        [r0 EXCEPT !.timerBeep1 = TimerStop(@), !.timerBeep2 = TimerStop(@),
                                   !.timerBeep3 = TimerStop(@), !.tone = FALSE,
                                   !.piezo = [drive |-> FALSE, b1 |-> FALSE, b2 |-> FALSE],
                                   !.state = "SETTING"]
        /\ pc = "sw2" =>
              \A long \in BOOLEAN, just \in BOOLEAN :
                 LET r0 == [Cur EXCEPT !.pc = "dispatch"]
                 IN  manageSW2(r0, long, just) =
                        [r0 EXCEPT !.timerBeep1 = TimerStop(@), !.timerBeep2 = TimerStop(@),
                                   !.timerBeep3 = TimerStop(@), !.tone = FALSE,
                                   !.piezo = [drive |-> FALSE, b1 |-> FALSE, b2 |-> FALSE],
                                   !.state = "SETTING"]

\* sw2 has cancelled an alert before its end
C6_Witness ==
    /\ pc = "dispatch" /\ prevState = "BEEPING" /\ state = "SETTING"
    /\ ~tone /\ out = "HIGH"
    /\ timerBeep1.st = "Stopped" /\ timerBeep2.st = "Stopped" /\ timerBeep3.st = "Stopped"
    /\ beepClock < timerBeep3.delay

\* C10: with bellLength = 0 the state is never BEEPING, no beep timer runs,
\* the tone is off, and running() goes from an expired countdown to SETTING
C10_NoAlertWhenLengthZero ==
    bellLength = 0 =>
        /\ state # "BEEPING"
        /\ ~tone
        /\ timerBeep1.st = "Stopped" /\ timerBeep2.st = "Stopped" /\ timerBeep3.st = "Stopped"
        /\ (pc = "dispatch" /\ state = "RUN" /\ TimerFires(timerMain)) =>
              running([Cur EXCEPT !.pc = "sw1"]).state = "SETTING"

\* a countdown of a second or more has expired into SETTING, bellLength = 0
C10_Witness ==
    /\ bellLength = 0 /\ pc = "sw1" /\ prevState = "RUN" /\ state = "SETTING"
    /\ runTime = SetMillis /\ runTime >= 1000 /\ ~tone

\* C4: from any minutes in 0..99 and seconds in 0..59, after every call of
\* setTime() with any int8_t step, minutes is in 0..99 and seconds in 0..59
C4_TimeInRange == 0 <= minutes /\ minutes <= 99 /\ 0 <= seconds /\ seconds <= 59

\* C7: when the alert ends by itself, the tone has been switched on
\* n = floor(bellLength * 1000 / onDelay) times, it is off, and n * onDelay
\* has passed since BEEPING was entered
C7_PulsesAndExit ==
    (pc = "sw1" /\ prevState = "BEEPING" /\ state = "SETTING") =>
        LET n == (bellLength * 1000) \div delay1Of(bellType)
        IN  n >= 1 => (pulses = n /\ ~tone /\ beepClock = n * delay1Of(bellType))

\* C8: setBeepTimers() sets bellLoops to floor(bellLength * 1000 / onDelay),
\* and bellLength * 1000 fits the 16-bit int it is computed in
C8_BellLoopsExact ==
    pc = "sw1" =>
        /\ bellLength * 1000 <= 32767
        /\ bellLoops = (bellLength * 1000) \div delay1Of(bellType)

\* C9: the delay of timerBeep3 is bellLoops * onDelay as an integer
C9_BoundNeverWraps == pc = "sw1" => timerBeep3.delay = bellLoops * delay1Of(bellType)

\* C11: at every entry into BEEPING the alert timers are those derived from
\* the current bellType and bellLength: timerBeep1 has the delay onDelay,
\* timerBeep2 the delay offDelay, bellLoops is
\* floor(bellLength * 1000 / onDelay) and timerBeep3 has the delay
\* bellLoops * onDelay
C11_ConfigAtAlertEntry ==
    (prevState = "RUN" /\ state = "BEEPING") =>
        /\ timerBeep1.delay = delay1Of(bellType)
        /\ timerBeep2.delay = delay2Of(bellType)
        /\ bellLoops = (bellLength * 1000) \div delay1Of(bellType)
        /\ timerBeep3.delay = bellLoops * delay1Of(bellType)

\* C13: for every step, setTime(step) adds step * k seconds to the time set,
\* k the multiplier of the cached duration, when the sum is a time of
\* 00:00 to 99:59
C13_AddsScaledStep ==
    (pc = "dispatch" /\ state = "SETTING") =>
        \A value \in Int8 :
           LET r == setTime(Cur, value)
               k == IF duration >= 600 THEN 30
                    ELSE IF duration >= 300 THEN 15
                    ELSE IF duration >= 120 THEN 10
                    ELSE IF duration >= 30 THEN 5
                    ELSE 1
               sum == 60 * minutes + seconds + value * k
           IN  (0 <= sum /\ sum <= 5999) => 60 * r.minutes + r.seconds = sum

\* C14: setSeconds(value), the sum seconds + value fitting the int8_t: past
\* 59 it adds one to minutes and keeps the sum mod 60, below 0 it takes one
\* from minutes and adds 60; seconds is pinned to 59 only when minutes + 1
\* is above 99 and to 0 only when minutes - 1 is below 0
C14_CarryAndPin ==
    (pc = "dispatch" /\ state = "SETTING") =>
        \A value \in Int8 :
           LET sum == seconds + value
               r == setSeconds(Cur, value)
           IN  (-128 <= sum /\ sum <= 127) =>
                  IF sum >= 60
                  THEN IF minutes + 1 <= 99
                       THEN r.minutes = minutes + 1 /\ r.seconds = sum % 60
                       ELSE r.minutes = 99 /\ r.seconds = 59
                  ELSE IF sum < 0
                  THEN IF minutes - 1 >= 0
                       THEN r.minutes = minutes - 1 /\ r.seconds = sum + 60
                       ELSE r.minutes = 0 /\ r.seconds = 0
                  ELSE r.minutes = minutes /\ r.seconds = sum

\* C15: at the end of a pass of loop() in SETTING the cached duration is
\* 60 * minutes + seconds
C15_DurationCache == (pc = "sw1" /\ state = "SETTING") => duration = 60 * minutes + seconds

\* C16: setTime(0) leaves minutes, seconds and the cached duration as they
\* are, wherever setting() can call it
C16_ZeroStepNoOp ==
    (pc = "dispatch" /\ state = "SETTING") =>
        LET r == setTime(Cur, 0)
        IN  r.minutes = minutes /\ r.seconds = seconds /\ r.duration = duration

C18_SlotIndexSaturates ==
    pc \in {"storeTime", "recallTime"} =>
        \A step \in Int8 :
           LET r == IF pc = "storeTime" THEN storeTime(Tick(Cur), <<step>>, FALSE, FALSE)
                    ELSE recallTime(Tick(Cur), <<step>>, FALSE, FALSE)
               sum == work + step
           IN  r.work = IF sum < 1 THEN 1 ELSE IF sum > maxStore THEN maxStore ELSE sum

\* the encoder steps C19 is checked for: those of Spec and the extremes
NavSteps == EncSteps \cup {-128, 127}

\* C19: menuState is one of the five items, and an iteration of
\* menuNaviguate() with an encoder event moves it by one item in the
\* direction of the step, leaving it at the last item on a step up and at
\* the first on a step down; without an encoder event it stays
C19_MenuMovesOneItem ==
    /\ menuState \in MEM_RECALL .. SOUND_LENGTH
    /\ pc = "menuNaviguate" =>
          \A enc \in {NoEnc} \cup {<<x>> : x \in NavSteps}, b1 \in MenuBtnInputs,
             b2 \in MenuBtnInputs :
             menuNaviguate(Tick(Cur), enc, b1, b2).menuState =
                IF enc = NoEnc THEN menuState
                ELSE IF enc[1] > 0
                THEN (IF menuState = SOUND_LENGTH THEN SOUND_LENGTH ELSE menuState + 1)
                ELSE (IF menuState = MEM_RECALL THEN MEM_RECALL ELSE menuState - 1)

\* an iteration of menuNaviguate() has left the menu at its last item
C19_Witness ==
    prevPc = "menuNaviguate" /\ pc = "menuNaviguate" /\ menuState = SOUND_LENGTH

\* C20: an editor left by sw2 (sw1 not pressed) leaves the store, minutes,
\* seconds, brightness, bellType, bellLength, bellLoops, the delays of the
\* beep timers and currentMem as they were, and the state is MENU
C20_CancelStaysInMenu ==
    pc \in {"storeTime", "recallTime", "setBrightness", "setBellType", "setBellLength"} =>
        \A enc \in EncInputs :
           LET r0 == Tick(Cur)
               r == CASE pc = "storeTime" -> storeTime(r0, enc, FALSE, TRUE)
                      [] pc = "recallTime" -> recallTime(r0, enc, FALSE, TRUE)
                      [] pc = "setBrightness" -> setBrightness(r0, enc, FALSE, TRUE)
                      [] pc = "setBellType" -> setBellType(r0, enc, FALSE, TRUE, "exact")
                      [] OTHER -> setBellLength(r0, enc, FALSE, TRUE, "exact")
           IN  /\ r.eeprom = eeprom
               /\ r.minutes = minutes /\ r.seconds = seconds
               /\ r.brightness = brightness
               /\ r.bellType = bellType /\ r.bellLength = bellLength
               /\ r.bellLoops = bellLoops
               /\ r.timerBeep1.delay = timerBeep1.delay
               /\ r.timerBeep2.delay = timerBeep2.delay
               /\ r.timerBeep3.delay = timerBeep3.delay
               /\ r.currentMem = currentMem
               /\ r.state = "MENU"

\* C12: a confirmed Recall at a slot where a Store was confirmed makes the
\* minutes and seconds of the last Store confirmed at that slot the time
\* set, whatever the encoder step that led to the slot
C12_RecallGivesStored ==
    pc = "recallTime" =>
        \A x \in Int8, j2 \in BOOLEAN :
           LET r == recallTime(Tick(Cur), <<x>>, TRUE, j2)
               k == r.currentMem
           IN  /\ k \in 1 .. maxStore
               /\ stored[k] # <<>> => <<r.minutes, r.seconds>> = stored[k]

\* 00:59 was stored in slot 1 and 01:04 in slot 64, and the Recall of slot
\* 64 has made 01:04 the time set over another (the cache is of 00:59)
C12_Witness ==
    /\ prevPc = "recallTime" /\ state = "SETTING"
    /\ stored[1] = <<0, 59>> /\ stored[maxStore] = <<1, 4>>
    /\ currentMem = maxStore /\ minutes = 1 /\ seconds = 4 /\ duration = 59

\* C21: MENU is entered only from SETTING, by manageSW2() on a press of sw2
\* just made; a short press of sw2 in RUN or PAUSE changes nothing, and a
\* press of sw2 read by menuNaviguate() sets the state to SETTING
C21_MenuEntryAndExit ==
    /\ (state = "MENU" /\ prevState # "MENU") => (prevState = "SETTING" /\ prevPc = "sw2")
    /\ pc = "sw2" =>
          \A b \in BtnInputs :
             LET r0 == [Cur EXCEPT !.pc = "dispatch"]
                 r == IF b.upd THEN manageSW2(r0, b.long, b.just) ELSE r0
             IN  /\ r.state = "MENU" => (b.upd /\ b.just /\ state = "SETTING")
                 /\ (b.upd /\ b.just /\ ~b.long /\ state = "SETTING") => r.state = "MENU"
                 /\ (b.just /\ ~b.long /\ state \in {"RUN", "PAUSE"}) => r = r0
    /\ pc = "menuNaviguate" =>
          /\ state = "MENU"
          /\ \A enc \in EncInputs, b1 \in MenuBtnInputs :
                menuNaviguate(Tick(Cur), enc, b1, Press).state = "SETTING"

\* the menu has been opened, and it has been left by sw2 for SETTING
C21_Witness ==
    /\ prevState = "MENU" /\ prevPc = "menuNaviguate" /\ state = "SETTING" /\ pc = "dispatch"
    /\ caller = "manageSW2"

C23_AllStoppedInSetting ==
    (prevState \in {"RUN", "PAUSE"} /\ state = "SETTING") =>
        /\ timerMain.st = "Stopped"
        /\ timerDots.st = "Stopped"
        /\ timerPause.st = "Stopped"

\* C24: in PAUSE timerMain is paused; a step of loop() with no button
\* event stays in PAUSE with the remaining time of timerMain as it was,
\* pause() never finds it expired, and PAUSE is left only by manageSW1() or
\* manageSW2(): for RUN on a short press of sw1, for SETTING on a long press
C24_PauseHoldsCountdown ==
    /\ state = "PAUSE" => timerMain.st = "Paused"
    /\ (prevState = "PAUSE" /\ state # "PAUSE") => prevPc \in {"sw1", "sw2"}
    /\ (pc = "sw1" /\ state = "PAUSE") =>
          LET r0 == [Tick(Cur) EXCEPT !.pc = "sw2"]
          IN  /\ r0.state = "PAUSE"
              /\ TimerRemaining(r0.timerMain) = TimerRemaining(timerMain)
              /\ \A b \in BtnInputs, enc \in EncInputs :
                    LET r == manageSW1(r0, b.long, b.just, enc)
                    IN  b.upd =>
                           CASE b.long -> r.state = "SETTING"
                             [] b.just -> r.state = "RUN"
                             [] OTHER -> r = r0
    /\ (pc = "sw2" /\ state = "PAUSE") =>
          \A b \in BtnInputs :
             LET r0 == [Cur EXCEPT !.pc = "dispatch"]
                 r == manageSW2(r0, b.long, b.just)
             IN  b.upd => IF b.long THEN r.state = "SETTING" ELSE r = r0
    /\ (pc = "dispatch" /\ state = "PAUSE") =>
          \A enc \in EncInputs :
             LET r == loopSwitch([Cur EXCEPT !.pc = "sw1"], enc)
             IN  /\ ~TimerFires(timerMain)
                 /\ r.state = "PAUSE"
                 /\ TimerRemaining(r.timerMain) = TimerRemaining(timerMain)

\* pause() has polled a countdown paused part way, twice or more
C24_Witness ==
    /\ prevState = "PAUSE" /\ state = "PAUSE" /\ prevPc = "dispatch" /\ pc = "sw1"
    /\ timerMain.st = "Paused" /\ timerMain.elapsed > 0
    /\ TimerRemaining(timerMain) > 0
    /\ timerPause.elapsed > 0

\* C25: in RUN timerMain is running, once; the poll of running() finds it
\* expired when the time passed in RUN has reached its delay and not
\* before, and the pass that finds it expired leaves RUN with timerMain
\* stopped; outside RUN and PAUSE timerMain is stopped, so it expires once
\* for each countdown started
C25_ExpiresOnce ==
    /\ state = "RUN" => (timerMain.st = "Running" /\ timerMain.mode = "ONCE")
    /\ state \notin {"RUN", "PAUSE"} => (timerMain.st = "Stopped" /\ ~TimerFires(timerMain))
    /\ (pc = "dispatch" /\ state = "RUN") =>
          LET r == running([Cur EXCEPT !.pc = "sw1"])
          IN  IF runTime < timerMain.delay
              THEN ~TimerFires(timerMain) /\ r.state = "RUN" /\ r.timerMain.st = "Running"
              ELSE /\ TimerFires(timerMain)
                   /\ r.state # "RUN"
                   /\ r.timerMain.st = "Stopped"
                   /\ ~TimerFires(r.timerMain)

\* a countdown of a second or more has expired with no alert to make
C25_Witness ==
    /\ prevPc = "dispatch" /\ prevState = "RUN" /\ state = "SETTING"
    /\ bellLength = 0 /\ runTime >= 1000 /\ timerMain.st = "Stopped"

\* C29: after setBeepTimers() the delay of timerBeep3 is short of
\* bellLength * 1000 by less than one onDelay, and never above it
C29_BoundTruncates ==
    pc = "sw1" =>
        LET short == bellLength * 1000 - timerBeep3.delay
        IN  0 <= short /\ short < delay1Of(bellType)

\* C30: at the end of a pass of loop() the display is enabled when the
\* state is not PAUSE, and it is enabled by the step that leaves PAUSE
C30_DisplayEnabled ==
    /\ (pc = "sw1" /\ state # "PAUSE") => clockOn
    /\ (prevState = "PAUSE" /\ state # "PAUSE") => clockOn

\* PAUSE has been left for RUN by the press that follows the one that
\* entered it, the display still dark from the entry
C30_Witness ==
    /\ prevState = "PAUSE" /\ prevPc = "sw1" /\ state = "RUN" /\ clockOn
    /\ timerPause.st = "Stopped" /\ pc = "sw2"

\* the alert is over: SETTING, the tone off, the three beep timers stopped
AlertOver(r) ==
    /\ r.state = "SETTING" /\ ~r.tone
    /\ r.timerBeep1.st = "Stopped"
    /\ r.timerBeep2.st = "Stopped"
    /\ r.timerBeep3.st = "Stopped"

\* C26: with no button event BEEPING leads to SETTING with the tone off and
\* the three beep timers stopped, and the pass of beeping() that finds
\* timerBeep3 expired ends the alert so, whatever timerBeep1 and timerBeep2
\* are at
C26_AlertEnds ==
    /\ [](/\ (pc = "dispatch" /\ state = "BEEPING" /\ TimerFires(timerBeep3)) =>
                AlertOver(loopSwitch([Cur EXCEPT !.pc = "sw1"], NoEnc))
          /\ (state = "BEEPING" /\ timerBeep3.st = "Running"
                 => timerBeep3.elapsed <= timerBeep3.delay + Quantum))
    /\ (state = "BEEPING") ~> AlertOver(Cur)

\* an alert of a second or more has ended by itself
C26_Witness ==
    /\ prevState = "BEEPING" /\ prevPc = "dispatch" /\ AlertOver(Cur)
    /\ beepClock >= 1000

\* C27: a step that is not a step of loop() - the interrupt, pc stays -
\* changes nothing but the piezo pins, and timer 1 is started and stopped
\* by steps of loop() only
C27_InterruptWritesPinsOnly ==
    [][/\ pc' = pc =>
             UNCHANGED <<caller, state, menuState, work, out, out2, tone, enable, clockOn,
                         clockDots, intensity, minutes, seconds, duration, brightness,
                         bellType, bellLength, bellLoops, currentMem, timerMain,
                         timerDots, timerPause, timerBeep1, timerBeep2, timerBeep3,
                         eeprom>>
       /\ tone' # tone => pc' # pc]_vars

\* the interrupt has toggled the pins beepOn() left high and low
C27_Witness ==
    /\ state = "BEEPING" /\ tone
    /\ piezo = [drive |-> TRUE, b1 |-> FALSE, b2 |-> TRUE]

\* C28: on the confirm of an editor every EEPROM.update() writes its byte
\* only when the value differs from the byte stored: storeTime() makes two
\* calls and the other editors one, none writes when the store holds the
\* value, and the bytes the store changes by are the ones written
C28_WriteIfChanged ==
    pc \in {"storeTime", "setBrightness", "setBellType", "setBellLength"} =>
        \A enc \in EncInputs, j2 \in BOOLEAN :
           LET r0 == Tick(Cur)
               r == CASE pc = "storeTime" -> storeTime(r0, enc, TRUE, j2)
                      [] pc = "setBrightness" -> setBrightness(r0, enc, TRUE, j2)
                      [] pc = "setBellType" -> setBellType(r0, enc, TRUE, j2, "exact")
                      [] OTHER -> setBellLength(r0, enc, TRUE, j2, "exact")
               changed == {a \in DOMAIN eeprom : r.eeprom[a] # eeprom[a]}
               written == {i \in 1 .. Len(r.updates) : r.updates[i]}
           IN  /\ Len(r.updates) = IF pc = "storeTime" THEN 2 ELSE 1
               /\ Cardinality(written) = Cardinality(changed)
               /\ r.eeprom = eeprom => written = {}
               /\ pc = "storeTime" =>
                     r.updates =
                        <<eeprom[memAdd + 2 * r.currentMem] # ToUint8(minutes),
                          eeprom[memAdd + 2 * r.currentMem + 1] # ToUint8(seconds)>>
               /\ pc = "setBrightness" => r.updates = <<eeprom[brightAdd] # r.brightness>>
               /\ pc = "setBellType" => r.updates = <<eeprom[bellTAdd] # r.bellType>>
               /\ pc = "setBellLength" => r.updates = <<eeprom[bellLAdd] # r.bellLength>>

\* 00:01 has been stored in the slot that held it: two calls, no write
C28_Witness ==
    /\ prevPc = "storeTime" /\ pc = "menuNaviguate"
    /\ updates = <<FALSE, FALSE>>
    /\ minutes = 0 /\ seconds = 1 /\ stored[currentMem] = <<0, 1>>


\* the duration recallTime() reads for the slot k of the store e
SlotOf(e, k) == <<e[memAdd + 2 * k], e[memAdd + 2 * k + 1]>>

\* C31: after eepromInit() every memory slot 1..64, read where recallTime()
\* reads it, holds 0:00, and the brightness, the alert type and the alert
\* length hold 8, 1 and 5
C31_InitClearsSlots ==
    (pc = "sw1" /\ prevPc = "power") =>
        /\ \A k \in 1 .. maxStore : SlotOf(eeprom, k) = <<0, 0>>
        /\ eeprom[brightAdd] = 8
        /\ eeprom[bellTAdd] = 1
        /\ eeprom[bellLAdd] = 5

\* C32: the initialisation sketch leaves a valid duration in every memory
\* slot 1..64 the board program recalls, each slot 15 seconds after the
\* slot before it
C32_SketchFillsSlots ==
    (pc = "sketch" /\ brightness # 8) =>
        /\ \A k \in 1 .. maxStore :
              /\ SlotOf(eeprom, k)[1] \in 0 .. 99
              /\ SlotOf(eeprom, k)[2] \in 0 .. 59
        /\ \A k \in 2 .. maxStore :
              60 * SlotOf(eeprom, k)[1] + SlotOf(eeprom, k)[2]
                  = 60 * SlotOf(eeprom, k - 1)[1] + SlotOf(eeprom, k - 1)[2] + 15

\* C33: in every board variant, when the brightness editor is left, by
\* confirm or by cancel, the intensity of the display is brightness - 1 for
\* the persisted brightness
C33_IntensityRestored ==
    pc = "setBrightness" =>
        \A enc \in EncInputs, j1 \in BOOLEAN, j2 \in BOOLEAN :
            (j1 \/ j2) =>
                \A r \in {setBrightness(Tick(Cur), enc, j1, j2),
                          setBrightnessV1(Tick(Cur), enc, j1, j2)} :
                    /\ r.pc # "setBrightness"
                    /\ r.brightness = r.eeprom[brightAdd]
                    /\ r.intensity = ToUint8(r.brightness - 1)

\* C34: at the end of every pass of loop() the tone generator runs only in
\* BEEPING: it is off in SETTING, RUN, PAUSE and MENU, whatever expiries,
\* cancels and time-outs of the alert came before
C34_ToneOnlyWhenBeeping ==
    (pc = "sw1" /\ tone) => state = "BEEPING"

\* an alert has sounded and timed out, and the pass ends in SETTING
C34_Witness ==
    /\ pc = "sw1"
    /\ prevPc = "dispatch"
    /\ prevState = "BEEPING"
    /\ state = "SETTING"
    /\ pulses >= 1
    /\ ~tone

\* C35: beepOn(), beepOff() and the tone interrupt handler change only the
\* bits 1 and 2 of port B, as the registers compute them and as the steps
\* of the model take them: bit 0, the relay output OUT, keeps its value and
\* the relay is de-asserted during the whole of BEEPING
C35_PiezoBitsOnly ==
    /\ \A hd \in HighBits, hp \in HighBits :
          LET p == Regs(Cur, hd, hp)
          IN  /\ \A q \in {beepOnRegs(p), beepOffRegs(p), isrRegs(p)} :
                    /\ And8(q.portb, Not8(6)) = And8(p.portb, Not8(6))
                    /\ And8(q.ddrb, Not8(6)) = And8(p.ddrb, Not8(6))
                    /\ Bit(q.portb, 0) = Bit(p.portb, 0)
              /\ beepOnRegs(p) = Regs(beepOn(Cur), hd, hp)
              /\ beepOffRegs(p) = Regs(beepOff(Cur), hd, hp)
              /\ isrRegs(p) = Regs(isr(Cur), hd, hp)
    /\ beepOn(Cur).out = out
    /\ beepOff(Cur).out = out
    /\ isr(Cur).out = out
    /\ state = "BEEPING" => out = "HIGH"

\* the alert sounds and the interrupt has toggled the piezo pins, the relay
\* output being high
C35_Witness ==
    /\ state = "BEEPING"
    /\ tone
    /\ out = "HIGH"
    /\ piezo = [drive |-> TRUE, b1 |-> FALSE, b2 |-> TRUE]

\* the encoder steps that lead from any slot to any slot
SlotSteps == (0 - maxStore) .. maxStore

\* C36: a confirmed Store at the slot k, 1 <= k <= 64, changes at most the
\* two bytes memAdd+2k and memAdd+2k+1, which then hold the time set: the
\* bytes of the brightness, the alert type and the alert length and the
\* record of every other slot are as they were
C36_StoreFrame ==
    pc = "storeTime" =>
        /\ \A x \in SlotSteps, j2 \in BOOLEAN :
              LET k == MemStep(work, <<x>>)
                  own == {memAdd + 2 * k, memAdd + 2 * k + 1}
              IN  /\ k \in 1 .. maxStore
                  /\ own \subseteq DOMAIN eeprom
                  /\ own \cap {brightAdd, bellTAdd, bellLAdd} = {}
                  /\ storeTime(Tick(Cur), <<x>>, TRUE, j2).eeprom
                        = [eeprom EXCEPT ![memAdd + 2 * k] = ToUint8(minutes),
                                         ![memAdd + 2 * k + 1] = ToUint8(seconds)]
        /\ \A k \in 1 .. maxStore, j \in 1 .. maxStore :
              j # k => {memAdd + 2 * j, memAdd + 2 * j + 1}
                          \cap {memAdd + 2 * k, memAdd + 2 * k + 1} = {}

\* 00:59 is in slot 1 and the Store of 01:04 in slot 2 has just been
\* confirmed: slot 1 and the brightness are as they were
C36_Witness ==
    /\ prevPc = "storeTime" /\ pc = "menuNaviguate"
    /\ currentMem = 2
    /\ stored[1] = <<0, 59>> /\ stored[2] = <<1, 4>>
    /\ SlotOf(eeprom, 1) = <<0, 59>> /\ SlotOf(eeprom, 2) = <<1, 4>>
    /\ updates = <<TRUE, TRUE>>
    /\ eeprom[brightAdd] = 8

\* C37: the time set (minutes, seconds) is changed only by setting() in
\* SETTING and by the Recall editor: no step taken in RUN, PAUSE or BEEPING
\* changes it, so the SETTING that follows a countdown has the time set the
\* countdown was started with
C37_TimeSetKept ==
    [][ /\ (<<minutes, seconds>>' # <<minutes, seconds>>) =>
              \/ (pc = "dispatch" /\ state = "SETTING")
              \/ pc = "recallTime"
        /\ state \in {"RUN", "PAUSE", "BEEPING"} =>
              <<minutes, seconds>>' = <<minutes, seconds>> ]_vars

\* a countdown of 0:01 has run to its end, the alert is over, and SETTING
\* shows 0:01 again
C37_Witness ==
    /\ prevState = "BEEPING"
    /\ state = "SETTING"
    /\ beepClock >= 1000
    /\ minutes = 0
    /\ seconds = 1

\* C38: setTime() is monotonic in the total duration: from every valid time
\* set, a positive step never makes 60 * minutes + seconds smaller and a
\* negative step never makes it larger
C38_SetTimeMonotonic ==
    (/\ pc = "dispatch" /\ state = "SETTING"
     /\ C4_TimeInRange
     /\ duration = 60 * minutes + seconds) =>
        \A value \in Int8 :
           LET r == setTime(Cur, value)
           IN  /\ value > 0 => 60 * r.minutes + r.seconds >= 60 * minutes + seconds
               /\ value < 0 => 60 * r.minutes + r.seconds <= 60 * minutes + seconds

\* C39: for every alert type 0..8 and every alert length 1..90 the repeat
\* count and the bound of the alert are positive: bellLoops >= 1 and the
\* delay of timerBeep3 is above 0
C39_AlertBoundPositive ==
    (pc = "sw1" /\ bellType \in 0 .. maxType /\ bellLength \in 1 .. maxTime) =>
        /\ bellLoops >= 1
        /\ timerBeep3.delay > 0

====
